---- MODULE Spec2Model ----
(***************************************************************************)
(* cc_workflow: pipeline scripts that translate files on disk into nodes   *)
(* of a host scene graph (Maya, Houdini, ZBrush) and back.                 *)
(*                                                                         *)
(* Each script is an independent procedure, so each has its own group of   *)
(* variables and its own specification; the variables of the other         *)
(* scripts stay at their idle values.                                      *)
(*                                                                         *)
(* A Python str is a sequence of one-character strings; a pathlib.Path is  *)
(* a sequence of components, each a str.                                   *)
(***************************************************************************)
EXTENDS Integers, Sequences, FiniteSets, TLC

VARIABLES
    \* ---- maya/SimpleObjExporter.py, export side
    scene,        \* the mesh transforms of the open scene as cmds.ls lists
                  \* them (parents before children, siblings by name): each
                  \* the list of its long name's segments
    meshes,       \* export_batch's argument: the long names (str)
    idx,          \* number of meshes export_batch has consumed
    success,      \* running sum of export_mesh results
    attempted,    \* the meshes export_mesh was called on, in order
    lastParts,    \* result of the last [clean_filename(p) ...] comprehension
    outFiles,     \* OBJ files written: set of [mesh, path]
    messages,     \* om.MGlobal.display* calls, in order
    nodes,        \* long names of the nodes currently in the scene
    selection,    \* the current selection (a str, or NoSelection)
    dupe,         \* export_mesh's dupe while the duplicate exists (a str,
                  \* or NoSelection)
    epc,          \* "idle", "batch", "export", "done", "raised"
    \* ---- maya/create_groups.py
    gEntries,     \* the entries of the JSON object, in iteration order
    gNext,        \* number of entries create_group_hierarchy has visited
    gGroups,      \* the groups created: set of [entry, parent, has, notes]
    gpc,          \* "run", "done"
    \* ---- maya/SimpleObjExporter.py, import side
    iFiles,       \* the .obj files under the import path, as relative paths
    iPending,     \* the files base.rglob has not yielded yet
    iImported,    \* the files whose import succeeded
    iGroups,      \* the groups made by cmds.group, in order: [name, asked]
    iParent,      \* the group (index into iGroups, 0: none) above the nodes
                  \* of each imported file
    iErrors,      \* number of "Unable to import" reports
    ipc,          \* "run", "done"
    \* ---- houdini/obj2usd_sop.py, houdini/obj2usd_lop.py
    hFiles,       \* the .obj files under root_folder, as relative paths
    sopNet,       \* children of the SOP script's parent: [name, type, file,
                  \* input]
    lopNet,       \* children of lopnet: [name, type, soppath, primpath,
                  \* inputs]
    hSopQueue,    \* files the SOP loop has not reached yet
    hLopQueue,    \* names of the nulls the LOP loop has not reached yet
    hLog,         \* the scripts run so far, in order: "sop", "lop"
    hpc,          \* "idle", "sop", "lop"
    \* ---- zbrush/import.py
    zRoot,        \* names of the .obj files directly in the folder
    zSubs,        \* the folder's subdirectories: name -> the .obj files
                  \* below it, as paths relative to it
    subtools,     \* ZBrush's SubTool list, top first: [id, name, mesh,
                  \* kind, folder]
    zActive,      \* index of the selected SubTool
    zNextId,      \* the next SubTool id ZBrush hands out
    placeholder_subtool_id,
    obj_counts,
    current_folder,
    zRootQ,       \* root_objs not imported yet
    zSubQ,        \* entries of folder.iterdir() not visited yet
    zFileQ,       \* sub_objs not imported yet
    zlog,         \* imports and folder creations, in order
    zpc,          \* "ready", "root", "subs", "files", "done"
    \* ---- maya/import_images.py
    imgDialog,    \* what cmds.fileDialog2 returns: Cancelled, or the list
                  \* of images, each given by the <<width, height>> its
                  \* image plane gets
    imgPlanes,    \* the image planes, in creation order
    imgCameras,   \* the cameras, in creation order
    imgGroups,    \* names of the groups created
    imgLayers,    \* names of the display layers created
    imgCubes,     \* translate of each helper cube created
    imgOut,       \* lines printed
    imgpc         \* "dialog", "planes", "cameras", "print", "done"

expVars == <<scene, meshes, idx, success, attempted, lastParts, outFiles,
             messages, nodes, selection, dupe, epc>>

grpVars == <<gEntries, gNext, gGroups, gpc>>

impVars == <<iFiles, iPending, iImported, iGroups, iParent, iErrors, ipc>>

houVars == <<hFiles, sopNet, lopNet, hSopQueue, hLopQueue, hLog, hpc>>

zbVars == <<zRoot, zSubs, subtools, zActive, zNextId, placeholder_subtool_id,
            obj_counts, current_folder, zRootQ, zSubQ, zFileQ, zlog, zpc>>

imgVars == <<imgDialog, imgPlanes, imgCameras, imgGroups, imgLayers, imgCubes,
             imgOut, imgpc>>

vars == <<expVars, grpVars, impVars, houVars, zbVars, imgVars>>

notExp == <<imgVars, grpVars, impVars, houVars, zbVars>>
notGrp == <<imgVars, expVars, impVars, houVars, zbVars>>
notImp == <<imgVars, expVars, grpVars, houVars, zbVars>>
notHou == <<imgVars, expVars, grpVars, impVars, zbVars>>
notZb == <<expVars, grpVars, impVars, houVars, imgVars>>
notImg == <<expVars, grpVars, impVars, houVars, zbVars>>

-----------------------------------------------------------------------------
(* Bounds of the model *)

MaxMeshes == 2      \* mesh transforms in the scene
MaxDepth == 2       \* segments of a long name
MaxEntries == 3     \* entries (at any depth) of the JSON object
MaxImportFiles == 3 \* .obj files under the import path
MaxDirDepth == 2    \* directories between the import path and a file
MaxObjFiles == 2    \* .obj files under the Houdini root_folder
MaxObjDirs == 1     \* directories between root_folder and a file
MaxRuns == 3        \* runs of the two Houdini scripts
MaxSubFiles == 2    \* .obj files below one subdirectory of the ZBrush folder
MaxSubDepth == 1    \* directories between a subdirectory and a file below it
MaxImages == 8      \* images selected in the file dialog

-----------------------------------------------------------------------------
(* Python str helpers *)

\* the elements of a sequence
Range(s) == {s[i] : i \in 1..Len(s)}

\* all sequences over S of length lo..hi
SeqsOf(S, lo, hi) == UNION {[1..n -> S] : n \in lo..hi}

\* the subsets of S with at most k elements
SubsetsUpTo(S, k) == {Range(s) : s \in SeqsOf(S, 0, k)}

\* str.split(sep) for a one-character separator
RECURSIVE SplitAcc(_, _, _, _)
SplitAcc(s, sep, cur, acc) ==
    IF s = <<>> THEN Append(acc, cur)
    ELSE IF Head(s) = sep THEN SplitAcc(Tail(s), sep, <<>>, Append(acc, cur))
    ELSE SplitAcc(Tail(s), sep, Append(cur, Head(s)), acc)

Split(s, sep) == SplitAcc(s, sep, <<>>, <<>>)

\* str.lstrip(chars) / str.rstrip(chars) / str.strip(chars)
RECURSIVE LStrip(_, _)
LStrip(s, chars) ==
    IF s # <<>> /\ Head(s) \in chars THEN LStrip(Tail(s), chars) ELSE s

RECURSIVE RStrip(_, _)
RStrip(s, chars) ==
    IF s # <<>> /\ s[Len(s)] \in chars
    THEN RStrip(SubSeq(s, 1, Len(s) - 1), chars) ELSE s

Strip(s, chars) == RStrip(LStrip(s, chars), chars)

\* str.replace(c, r) for a one-character pattern c and a replacement str r
RECURSIVE Replace(_, _, _)
Replace(s, c, r) ==
    IF s = <<>> THEN <<>>
    ELSE (IF Head(s) = c THEN r ELSE <<Head(s)>>) \o Replace(Tail(s), c, r)

\* sep.join(parts)
RECURSIVE Join(_, _)
Join(parts, sep) ==
    IF parts = <<>> THEN <<>>
    ELSE IF Len(parts) = 1 THEN parts[1]
    ELSE parts[1] \o sep \o Join(Tail(parts), sep)

\* [x for x in s if x]: drop the empty strings
RECURSIVE NonEmpty(_)
NonEmpty(s) ==
    IF s = <<>> THEN <<>>
    ELSE (IF Head(s) = <<>> THEN <<>> ELSE <<Head(s)>>) \o NonEmpty(Tail(s))

\* the characters of the names used here, in code point order
CodePoints ==
    <<"%", ".", "5", ":", "C", "\\", "_", "a", "b", "j", "n", "o", "s", "t", "x",
      "y", "|">>

CodePoint(c) == CHOOSE i \in 1..Len(CodePoints) : CodePoints[i] = c

\* s < t for two str
RECURSIVE StrLess(_, _)
StrLess(s, t) ==
    IF t = <<>> THEN FALSE
    ELSE IF s = <<>> THEN TRUE
    ELSE IF Head(s) = Head(t) THEN StrLess(Tail(s), Tail(t))
    ELSE CodePoint(Head(s)) < CodePoint(Head(t))

\* p < q for two paths below the same directory: their parts compared as
\* lists of str
RECURSIVE PathLess(_, _)
PathLess(p, q) ==
    IF q = <<>> THEN FALSE
    ELSE IF p = <<>> THEN TRUE
    ELSE IF Head(p) = Head(q) THEN PathLess(Tail(p), Tail(q))
    ELSE StrLess(Head(p), Head(q))

\* sorted(S) for a set of str / a set of paths
RECURSIVE SortedStrs(_)
SortedStrs(S) ==
    IF S = {} THEN <<>>
    ELSE LET m == CHOOSE x \in S : \A y \in S \ {x} : StrLess(x, y)
         IN <<m>> \o SortedStrs(S \ {m})

RECURSIVE SortedPaths(_)
SortedPaths(S) ==
    IF S = {} THEN <<>>
    ELSE LET m == CHOOSE x \in S : \A y \in S \ {x} : PathLess(x, y)
         IN <<m>> \o SortedPaths(S \ {m})

\* s.startswith(prefix)
StartsWith(s, prefix) ==
    Len(s) >= Len(prefix) /\ SubSeq(s, 1, Len(prefix)) = prefix

\* the host's way to keep sibling names unique: a clashing name gets the
\* first free number appended
NameDigits == <<"1", "2", "3", "4", "5", "6", "7", "8", "9">>

UniqueName(name, used) ==
    IF name \notin used THEN name
    ELSE LET free == {k \in 1..Len(NameDigits) :
                        (name \o <<NameDigits[k]>>) \notin used}
             k == CHOOSE k \in free : \A j \in free : k <= j
         IN name \o <<NameDigits[k]>>

-----------------------------------------------------------------------------
(* maya/SimpleObjExporter.py: export *)

\* set(r'<>:"/\|?*')
Illegal == {"<", ">", ":", "\"", "/", "\\", "|", "?", "*"}

\* the exception clean_filename raises
ValueError == <<"ValueError">>

clean_filename(name) ==
    IF \E i \in 1..Len(name) : name[i] \in Illegal THEN ValueError
    ELSE Replace(Replace(Strip(name, {" ", ":", "|"}), ":", <<"_">>), "|", <<"_">>)

\* the names Maya gives nodes: letters, digits, "_", and ":" after a namespace
SegNames == { <<"a">>, <<"b">>, <<"n", ":", "a">> }

\* the segment lists of the transforms a scene can hold
ScenePaths == SeqsOf(SegNames, 1, MaxDepth)

\* cmds.ls(obj, long=True)[0]: "|p1|...|pk|m"
LongName(segs) == <<"|">> \o Join(segs, <<"|">>)

\* params["batch_export_path"], one path component
BatchRoot == <<"o", "b", "j">>

ObjSuffix == <<".", "o", "b", "j">>

NoSelection == <<"<none>">>

\* [clean_filename(p) for p in mesh.split("|") if p]: ValueError as soon as
\* one segment is rejected
Parts(mesh) ==
    LET segs == NonEmpty(Split(mesh, "|"))
        cleaned == [i \in 1..Len(segs) |-> clean_filename(segs[i])]
    IN IF \E i \in 1..Len(segs) : cleaned[i] = ValueError THEN ValueError
       ELSE cleaned

\* a variant that writes every file into the batch directory itself
OutFileFlat(parts) == <<BatchRoot, parts[Len(parts)] \o ObjSuffix>>

\* out_dir / f"{mesh_name}.obj", out_dir = batch path joined with parts[:-1]
OutFile(parts) ==
    <<BatchRoot>> \o SubSeq(parts, 1, Len(parts) - 1)
        \o <<parts[Len(parts)] \o ObjSuffix>>

\* what cmds.file(exportSelected=True) can do: write the file, raise
\* RuntimeError, or raise another exception
ExportOutcomes == {"ok", "RuntimeError", "Exception"}

\* export_mesh(mesh) under the host outcomes mkOk (ensure_dir of the mesh's
\* directory), dupOk (cmds.duplicate), exported (cmds.file exportSelected):
\* res is "true", "false" or "raise"
export_mesh(mesh, mkOk, dupOk, exported) ==
    LET parts == Parts(mesh) IN
    IF parts = ValueError
    THEN [res |-> "raise", parts |-> parts, files |-> {},
          msgs |-> <<[level |-> "error", kind |-> "illegal", k |-> 0, n |-> 0]>>,
          sel |-> selection]
    ELSE IF ~mkOk
    THEN [res |-> "false", parts |-> parts, files |-> {},
          msgs |-> <<[level |-> "error", kind |-> "mkdir", k |-> 0, n |-> 0],
                     [level |-> "error", kind |-> "exportpath", k |-> 0, n |-> 0]>>,
          sel |-> selection]
    ELSE IF ~dupOk
    THEN [res |-> "raise", parts |-> parts, files |-> {}, msgs |-> <<>>,
          sel |-> selection]
    ELSE IF exported = "ok"
    THEN [res |-> "true", parts |-> parts,
          files |-> {[mesh |-> mesh, path |-> OutFile(parts)]},
          msgs |-> <<[level |-> "info", kind |-> "exported", k |-> 0, n |-> 0]>>,
          sel |-> mesh]
    ELSE IF exported = "RuntimeError"
    THEN [res |-> "false", parts |-> parts, files |-> {},
          msgs |-> <<[level |-> "error", kind |-> "failed", k |-> 0, n |-> 0]>>,
          sel |-> mesh]
    ELSE [res |-> "raise", parts |-> parts, files |-> {}, msgs |-> <<>>,
          sel |-> mesh]

\* cmds.duplicate(mesh, name=f"{mesh}_export")[0]: the copy stands beside the
\* mesh under a name the host keeps unique
DupeName(mesh, ns) == UniqueName(mesh \o <<"_", "e", "x", "p", "o", "r", "t">>, ns)

\* the scene after cmds.duplicate: the copy and a copy of everything below
\* the mesh
Duplicated(ns, mesh, d) ==
    ns \cup {d}
       \cup {d \o SubSeq(n, Len(mesh) + 1, Len(n)) :
               n \in {m \in ns : StartsWith(m, mesh \o <<"|">>)}}

\* the scene after cmds.delete(d): d and everything below it are gone
Deleted(ns, d) == {n \in ns : n # d /\ ~StartsWith(n, d \o <<"|">>)}

\* a variant that deletes the duplicate only after a successful export
AfterExportOnSuccess(ns, d, exported) ==
    IF exported = "ok" THEN Deleted(ns, d) ELSE ns

\* the scene when the try statement is left: the finally block has deleted
\* the duplicate, whatever the export did
AfterExport(ns, d, exported) == Deleted(ns, d)

\* the report that ends export_batch
Summary(k, n) ==
    [level |-> IF k = n THEN "info" ELSE "warning", kind |-> "summary",
     k |-> k, n |-> n]

ExpInit ==
    /\ scene \in {SortedPaths(S) :
                    S \in SubsetsUpTo(ScenePaths, MaxMeshes)}
    /\ meshes = <<>>
    /\ idx = 0
    /\ success = 0
    /\ attempted = <<>>
    /\ lastParts = <<>>
    /\ outFiles = {}
    /\ messages = <<>>
    /\ nodes = {LongName(scene[i]) : i \in 1..Len(scene)}
    /\ selection = NoSelection
    /\ dupe = NoSelection
    /\ epc = "idle"

\* the exporter is not running
ExpIdle ==
    /\ scene = <<>> /\ meshes = <<>> /\ idx = 0 /\ success = 0
    /\ attempted = <<>> /\ lastParts = <<>> /\ outFiles = {}
    /\ messages = <<>> /\ nodes = {} /\ selection = NoSelection
    /\ dupe = NoSelection /\ epc = "off"

\* export_pressed with no mesh in the scene: a warning, and nothing else
ExportPressedEmpty ==
    /\ epc = "idle"
    /\ scene = <<>>
    /\ messages' = Append(messages,
                     [level |-> "warning", kind |-> "nomesh", k |-> 0, n |-> 0])
    /\ epc' = "done"
    /\ UNCHANGED <<scene, meshes, idx, success, attempted, lastParts, outFiles,
                   nodes, selection, dupe>>
    /\ UNCHANGED notExp

\* export_pressed into export_batch, up to the ensure_dir of the batch path
ExportPressed(dirOk) ==
    /\ epc = "idle"
    /\ scene # <<>>
    /\ meshes' = [i \in 1..Len(scene) |-> LongName(scene[i])]
    /\ IF dirOk
       THEN /\ epc' = "batch"
            /\ UNCHANGED messages
       ELSE /\ epc' = "done"
            /\ messages' = messages \o
                 <<[level |-> "error", kind |-> "mkdir", k |-> 0, n |-> 0],
                   [level |-> "error", kind |-> "invalidpath", k |-> 0, n |-> 0]>>
    /\ UNCHANGED <<scene, idx, success, attempted, lastParts, outFiles, nodes,
                   selection, dupe>>
    /\ UNCHANGED notExp

\* one term of sum(self.export_mesh(m) for m in meshes), up to the try
\* statement: the call ends early on an illegal name, a directory that
\* cannot be made or a failing duplicate; otherwise the duplicate is made
\* and selected
ExportNextMesh(mkOk, dupOk) ==
    /\ epc = "batch"
    /\ idx < Len(meshes)
    /\ LET mesh == meshes[idx + 1]
           r == export_mesh(mesh, mkOk, dupOk, "ok")
           d == DupeName(mesh, nodes)
       IN
         /\ attempted' = Append(attempted, mesh)
         /\ lastParts' = r.parts
         /\ IF r.parts # ValueError /\ mkOk /\ dupOk
            THEN /\ dupe' = d
                 /\ nodes' = Duplicated(nodes, mesh, d)
                 /\ selection' = d
                 /\ epc' = "export"
                 /\ UNCHANGED <<idx, success, outFiles, messages>>
            ELSE /\ messages' = messages \o r.msgs
                 /\ idx' = idx + 1
                 /\ epc' = IF r.res = "raise" THEN "raised" ELSE "batch"
                 /\ UNCHANGED <<success, outFiles, nodes, selection, dupe>>
    /\ UNCHANGED <<scene, meshes>>
    /\ UNCHANGED notExp

\* the try statement of export_mesh: the export, its report, and the finally
\* block that deletes the duplicate and selects the mesh
ExportFile(exported) ==
    /\ epc = "export"
    /\ LET mesh == meshes[idx + 1]
           r == export_mesh(mesh, TRUE, TRUE, exported)
       IN
         /\ outFiles' = outFiles \cup r.files
         /\ messages' = messages \o r.msgs
         /\ nodes' = AfterExport(nodes, dupe, exported)
         /\ selection' = r.sel
         /\ idx' = idx + 1
         /\ success' = IF r.res = "true" THEN success + 1 ELSE success
         /\ epc' = IF r.res = "raise" THEN "raised" ELSE "batch"
    /\ dupe' = NoSelection
    /\ UNCHANGED <<scene, meshes, attempted, lastParts>>
    /\ UNCHANGED notExp

\* the sum is complete: the summary report
ExportSummary ==
    /\ epc = "batch"
    /\ idx = Len(meshes)
    /\ messages' = Append(messages, Summary(success, Len(meshes)))
    /\ epc' = "done"
    /\ UNCHANGED <<scene, meshes, idx, success, attempted, lastParts, outFiles,
                   nodes, selection, dupe>>
    /\ UNCHANGED notExp

ExpNext ==
    \/ ExportPressedEmpty
    \/ \E dirOk \in BOOLEAN : ExportPressed(dirOk)
    \/ \E mkOk, dupOk \in BOOLEAN : ExportNextMesh(mkOk, dupOk)
    \/ \E exported \in ExportOutcomes : ExportFile(exported)
    \/ ExportSummary


-----------------------------------------------------------------------------
(* Properties of the export side *)

\* the summary reports among the messages
Summaries == SelectSeq(messages, LAMBDA m : m.kind = "summary")

\* ensure_dir accepted the batch directory
BatchDirValid == \A i \in 1..Len(messages) : messages[i].kind # "invalidpath"

ExportOver == epc \in {"done", "raised"} /\ meshes # <<>>

\* C1: with a valid export directory, whatever fails for single meshes, every
\* mesh of the batch is attempted and the batch ends with exactly one summary
\* report "Exported k/n", n the batch size and k the number of meshes
\* exported, shown as info iff k = n and as a warning otherwise.
C1_BatchNeverHalts ==
    (ExportOver /\ BatchDirValid) =>
        /\ attempted = meshes
        /\ Summaries = <<Summary(Cardinality({f.mesh : f \in outFiles}),
                                 Len(meshes))>>

\* C2: clean_filename yields, for every node name it is given, a value and
\* not an error, and the value holds none of the illegal characters.
C2_CleanFilenameTotal ==
    \A i \in 1..Len(attempted) :
        \A p \in Range(NonEmpty(Split(attempted[i], "|"))) :
            /\ clean_filename(p) # ValueError
            /\ \A c \in Range(clean_filename(p)) : c \notin Illegal

\* the file the node with segments p1..pk, m is meant to land in:
\* <batch_export_path>/p1/.../pk/m.obj
MirrorPath(segs) ==
    <<BatchRoot>> \o SubSeq(segs, 1, Len(segs) - 1)
        \o <<segs[Len(segs)] \o ObjSuffix>>

\* C5: every OBJ written by export_mesh lies at the path that mirrors the
\* long name of the node it was exported from, and no two scene nodes are
\* written to the same file.
C5_PathMirrorsHierarchy ==
    /\ \A f \in outFiles :
         \E i \in 1..Len(scene) :
            /\ f.mesh = LongName(scene[i])
            /\ f.path = MirrorPath(scene[i])
    /\ \A f, g \in outFiles : f.mesh # g.mesh => f.path # g.path
    /\ (epc = "done" /\ Summaries # <<>>) => Cardinality(outFiles) = success

\* C5 witness: two nodes with the same leaf name under different parents were
\* both exported.
C5_Witness ==
    \E f, g \in outFiles :
        /\ f.mesh # g.mesh
        /\ f.path[Len(f.path)] = g.path[Len(g.path)]
        /\ Len(f.path) > 2

\* the nodes of the scene before the batch started
SceneNodes == {LongName(scene[i]) : i \in 1..Len(scene)}

\* C13: exporting leaves the scene's nodes as they were. Outside the try
\* statement of export_mesh, so after each export_mesh has returned or
\* raised, whatever the export call did, and after the whole batch, the
\* scene holds exactly the nodes it held before the batch started and no
\* duplicate is left; inside, the only other nodes are the duplicate and
\* what it carries below it.
C13_ExportLeavesScene ==
    /\ epc # "export" => (nodes = SceneNodes /\ dupe = NoSelection)
    /\ epc = "export" =>
          /\ dupe \in nodes \ SceneNodes
          /\ Deleted(nodes, dupe) = SceneNodes

\* C13 witness: a batch that ended by an exception out of the export call,
\* after an export that failed with RuntimeError; the meshes exported were a
\* node and a node below it, so a duplicate carried a subtree.
C13_Witness ==
    /\ epc = "raised"
    /\ idx = 2
    /\ selection = meshes[2]
    /\ lastParts # ValueError
    /\ \E i \in 1..Len(messages) : messages[i].kind = "failed"
    /\ StartsWith(meshes[2], meshes[1] \o <<"|">>)

-----------------------------------------------------------------------------
(* maya/create_groups.py *)

\* value.get("notes", "") finds no "notes" member
Absent == <<"<absent>">>

\* the texts a JSON string can hold: "" and a non-empty one
Texts == { <<>>, <<"t">> }

\* One entry (key, value) of the nested object, at any depth.  parent is 0
\* for an entry of the top-level object, else the index of the entry whose
\* "children" object holds it.  kind is the type of the value: "dict" (text
\* is its "notes" member, or Absent), "str" (text is the value), or "other"
\* (a number, list, boolean or null).  The key is the entry's identity.
EntryValues ==
    [kind : {"dict"}, text : Texts \cup {Absent}]
        \cup [kind : {"str"}, text : Texts]
        \cup [kind : {"other"}, text : {Absent}]

\* the entries enclosing entry i, i included
RECURSIVE Enclosing(_, _)
Enclosing(par, i) == IF i = 0 THEN {} ELSE {i} \cup Enclosing(par, par[i])

\* parents of a nested object listed in iteration order (dict.items() with
\* the recursion into "children"): each entry follows its parent, and once an
\* object is left it is not entered again
WellNested(vals, par) ==
    \A i \in 1..Len(vals) :
        /\ par[i] < i
        /\ par[i] # 0 => vals[par[i]].kind = "dict"
        /\ i > 1 => par[i] \in {0} \cup Enclosing(par, i - 1)

JsonObjects ==
    UNION { { [i \in 1..n |-> [kind |-> vals[i].kind, text |-> vals[i].text,
                               parent |-> par[i]]] :
                vals \in [1..n -> EntryValues],
                par \in {q \in [1..n -> 0..(n - 1)] :
                           \A i \in 1..n : q[i] < i} }
            : n \in 0..MaxEntries }

\* a variant that gives a string entry no attribute when its text is empty
NotesAttrSkippingEmpty(e) ==
    IF e.text = Absent \/ e.text = <<>>
    THEN [has |-> FALSE, notes |-> <<>>]
    ELSE [has |-> TRUE, notes |-> e.text]

\* the "notes" attribute create_group_hierarchy leaves on the group of entry
\* e: a dict value gets one only if its notes are non-empty, a str value
\* always
NotesAttr(e) ==
    IF e.kind = "dict"
    THEN LET notes == IF e.text = Absent THEN <<>> ELSE e.text IN
         IF notes # <<>> THEN [has |-> TRUE, notes |-> notes]
         ELSE [has |-> FALSE, notes |-> <<>>]
    ELSE [has |-> TRUE, notes |-> e.text]

GrpInit ==
    /\ gEntries \in {o \in JsonObjects :
                       WellNested(o, [i \in 1..Len(o) |-> o[i].parent])}
    /\ gNext = 0
    /\ gGroups = {}
    /\ gpc = "run"

\* create_groups is not running
GrpIdle == gEntries = <<>> /\ gNext = 0 /\ gGroups = {} /\ gpc = "off"

\* one iteration of "for key, value in node_dict.items()" on a dict or str
\* value: the group, its parent, its attribute
CreateGroup ==
    /\ gpc = "run"
    /\ gNext < Len(gEntries)
    /\ gEntries[gNext + 1].kind \in {"dict", "str"}
    /\ LET e == gEntries[gNext + 1]
           a == NotesAttr(e)
       IN gGroups' = gGroups \cup
            {[entry |-> gNext + 1, parent |-> e.parent, has |-> a.has,
              notes |-> a.notes]}
    /\ gNext' = gNext + 1
    /\ UNCHANGED <<gEntries, gpc>>
    /\ UNCHANGED notGrp

\* one iteration on any other value: neither branch is taken
SkipEntry ==
    /\ gpc = "run"
    /\ gNext < Len(gEntries)
    /\ gEntries[gNext + 1].kind = "other"
    /\ gNext' = gNext + 1
    /\ UNCHANGED <<gEntries, gGroups, gpc>>
    /\ UNCHANGED notGrp

\* the outermost call returns
GroupsBuilt ==
    /\ gpc = "run"
    /\ gNext = Len(gEntries)
    /\ gpc' = "done"
    /\ UNCHANGED <<gEntries, gNext, gGroups>>
    /\ UNCHANGED notGrp

GrpNext == CreateGroup \/ SkipEntry \/ GroupsBuilt

-----------------------------------------------------------------------------
(* Properties of create_groups *)

\* the descriptive text of entry i: the "notes" member of an object (empty
\* when it has none), the value of a string
EntryText(i) ==
    IF gEntries[i].text = Absent THEN <<>> ELSE gEntries[i].text

-----------------------------------------------------------------------------
(* maya/SimpleObjExporter.py: import *)

\* directory names and file stems under the import path
DirNames == { <<"a">>, <<"b">> }
ObjStems == { <<"x">>, <<"y">> }

\* a relative path of a file: its directories, then "<stem>.obj"
ImportPaths ==
    { dirs \o <<stem \o ObjSuffix>> :
        dirs \in SeqsOf(DirNames, 0, MaxDirDepth), stem \in ObjStems }

\* the directories of a relative path: obj_file.relative_to(base).parent
ParentDirs(rel) == SubSeq(rel, 1, Len(rel) - 1)

\* str(obj_file.relative_to(base).parent).replace("/", "|"); the str of the
\* empty relative path is "."
Hierarchy(rel) ==
    IF ParentDirs(rel) = <<>> THEN <<".">>
    ELSE Replace(Join(ParentDirs(rel), <<"/">>), "/", <<"|">>)

\* obj_file.parent.name: the last directory, the import path's own name for
\* a file directly in it
ParentName(rel) ==
    IF ParentDirs(rel) = <<>> THEN BatchRoot
    ELSE rel[Len(rel) - 1]

ImpInit ==
    /\ iFiles \in SubsetsUpTo(ImportPaths, MaxImportFiles)
    /\ iPending = iFiles
    /\ iImported = {}
    /\ iGroups = <<>>
    /\ iParent = [f \in {} |-> 0]
    /\ iErrors = 0
    /\ ipc = "run"

\* import_pressed is not running
ImpIdle ==
    /\ iFiles = {} /\ iPending = {} /\ iImported = {} /\ iGroups = <<>>
    /\ iParent = [f \in {} |-> 0] /\ iErrors = 0 /\ ipc = "off"

\* one iteration of "for obj_file in base.rglob('*.obj')" whose cmds.file
\* import succeeds: the new nodes are grouped when hierarchy is non-empty
ImportFile(f) ==
    /\ ipc = "run"
    /\ f \in iPending
    /\ iPending' = iPending \ {f}
    /\ iImported' = iImported \cup {f}
    /\ IF Hierarchy(f) # <<>>
       THEN LET used == {iGroups[i].name : i \in 1..Len(iGroups)}
                g == [name |-> UniqueName(ParentName(f), used),
                      asked |-> ParentName(f)]
            IN /\ iGroups' = Append(iGroups, g)
               /\ iParent' = (f :> (Len(iGroups) + 1)) @@ iParent
       ELSE /\ iParent' = (f :> 0) @@ iParent
            /\ UNCHANGED iGroups
    /\ UNCHANGED <<iFiles, iErrors, ipc>>
    /\ UNCHANGED notImp

\* one iteration whose cmds.file import raises RuntimeError: reported, and
\* the loop goes on
ImportFileFails(f) ==
    /\ ipc = "run"
    /\ f \in iPending
    /\ iPending' = iPending \ {f}
    /\ iErrors' = iErrors + 1
    /\ UNCHANGED <<iFiles, iImported, iGroups, iParent, ipc>>
    /\ UNCHANGED notImp

\* rglob is exhausted
ImportDone ==
    /\ ipc = "run"
    /\ iPending = {}
    /\ ipc' = "done"
    /\ UNCHANGED <<iFiles, iPending, iImported, iGroups, iParent, iErrors>>
    /\ UNCHANGED notImp

ImpNext ==
    \/ \E f \in ImportPaths : ImportFile(f)
    \/ \E f \in ImportPaths : ImportFileFails(f)
    \/ ImportDone

-----------------------------------------------------------------------------
(* Properties of the import side *)

\* the names of the groups above the nodes of file f, outermost first (the
\* groups cmds.group makes are all children of the world)
GroupChain(f) ==
    IF iParent[f] = 0 THEN <<>> ELSE <<iGroups[iParent[f]].name>>

\* C4: after import_pressed the nodes of a file at d1/.../dk lie under the
\* group hierarchy d1|...|dk, files of one folder lie under one group, and
\* files directly in the import path lie under no group.
C4_GroupsMirrorFolders ==
    ipc = "done" =>
        /\ \A f \in iImported : GroupChain(f) = ParentDirs(f)
        /\ \A f, g \in iImported :
              ParentDirs(f) = ParentDirs(g) => iParent[f] = iParent[g]

-----------------------------------------------------------------------------
(* houdini/obj2usd_sop.py and houdini/obj2usd_lop.py *)

\* PurePath.with_suffix("") on the last component: cut from its last "."
\* (a leading "." is no suffix)
Stem(comp) ==
    LET dots == {i \in 2..Len(comp) : comp[i] = "."} IN
    IF dots = {} THEN comp
    ELSE SubSeq(comp, 1, (CHOOSE i \in dots : \A j \in dots : j <= i) - 1)

\* rel_path.with_suffix("").parts
StemParts(rel) ==
    SubSeq(rel, 1, Len(rel) - 1) \o <<Stem(rel[Len(rel)])>>

\* names of directories and files under root_folder
HouSegs == { <<"a">>, <<"b">>, <<"a", "_", "b">> }

HouPaths ==
    { dirs \o <<stem \o ObjSuffix>> :
        dirs \in SeqsOf(HouSegs, 0, MaxObjDirs), stem \in HouSegs }

ObjPrefix == <<"o", "b", "j", "_">>
OutPrefix == <<"o", "u", "t", "_">>
ImpPrefix == <<"i", "m", "p", "_">>
MatPrefix == <<"m", "a", "t", "_">>
MergeAll == <<"m", "e", "r", "g", "e", "_", "a", "l", "l">>
WorldPrefix == <<"/", "W", "o", "r", "l", "d", "/">>
NoInput == <<>>

\* "_".join(rel_path.with_suffix("").parts)
NodeSuffix(rel) == Join(StemParts(rel), <<"_">>)

\* sop_null.name()[4:].split("_")
RelNameParts(nullName) == Split(SubSeq(nullName, 5, Len(nullName)), "_")

\* "/World/" + "/".join(rel_name_parts)
PrimPath(nullName) == WorldPrefix \o Join(RelNameParts(nullName), <<"/">>)

NamesOf(net) == {n.name : n \in net}

HouInit ==
    /\ hFiles \in SubsetsUpTo(HouPaths, MaxObjFiles)
    /\ sopNet = {}
    /\ lopNet = {}
    /\ hSopQueue = {}
    /\ hLopQueue = {}
    /\ hLog = <<>>
    /\ hpc = "idle"

\* no Houdini script is running
HouIdle ==
    /\ hFiles = {} /\ sopNet = {} /\ lopNet = {} /\ hSopQueue = {}
    /\ hLopQueue = {} /\ hLog = <<>> /\ hpc = "off"

\* obj2usd_sop.py up to its loop: every child named obj_* is destroyed (a
\* node wired to a destroyed node loses that input), the files are listed
SopStart ==
    /\ hpc = "idle"
    /\ Len(hLog) < MaxRuns
    /\ LET gone == {n.name : n \in {m \in sopNet : StartsWith(m.name, ObjPrefix)}}
       IN sopNet' = { [n EXCEPT !.input =
                          IF n.input \in gone THEN NoInput ELSE n.input] :
                      n \in {m \in sopNet : m.name \notin gone} }
    /\ hSopQueue' = hFiles
    /\ hLog' = Append(hLog, "sop")
    /\ hpc' = "sop"
    /\ UNCHANGED <<hFiles, lopNet, hLopQueue>>
    /\ UNCHANGED notHou

\* one iteration of "for path in obj_files": the file node and its null
SopCreate(f) ==
    /\ hpc = "sop"
    /\ f \in hSopQueue
    /\ LET fname == UniqueName(ObjPrefix \o NodeSuffix(f), NamesOf(sopNet))
           oname == UniqueName(OutPrefix \o NodeSuffix(f),
                               NamesOf(sopNet) \cup {fname})
       IN sopNet' = sopNet \cup
            { [name |-> fname, type |-> "file", file |-> f, input |-> NoInput],
              [name |-> oname, type |-> "null", file |-> <<>>, input |-> fname] }
    /\ hSopQueue' = hSopQueue \ {f}
    /\ UNCHANGED <<hFiles, lopNet, hLopQueue, hLog, hpc>>
    /\ UNCHANGED notHou

\* the SOP script ends
SopEnd ==
    /\ hpc = "sop"
    /\ hSopQueue = {}
    /\ hpc' = "idle"
    /\ UNCHANGED <<hFiles, sopNet, lopNet, hSopQueue, hLopQueue, hLog>>
    /\ UNCHANGED notHou

\* obj2usd_lop.py up to its loop: every child named imp_* is destroyed, the
\* nulls named out_* are collected
LopStart ==
    /\ hpc = "idle"
    /\ Len(hLog) < MaxRuns
    /\ LET gone == {n.name : n \in {m \in lopNet : StartsWith(m.name, ImpPrefix)}}
       IN lopNet' = { [n EXCEPT !.inputs = n.inputs \ gone] :
                      n \in {m \in lopNet : m.name \notin gone} }
    /\ hLopQueue' = {n.name : n \in {m \in sopNet :
                        m.type = "null" /\ StartsWith(m.name, OutPrefix)}}
    /\ hLog' = Append(hLog, "lop")
    /\ hpc' = "lop"
    /\ UNCHANGED <<hFiles, sopNet, hSopQueue>>
    /\ UNCHANGED notHou

\* one iteration of "for sop_null in sop_out_nodes": the sopimport node and
\* its material library
LopCreate(o) ==
    /\ hpc = "lop"
    /\ o \in hLopQueue
    /\ LET suffix == Join(RelNameParts(o), <<"_">>)
           iname == UniqueName(ImpPrefix \o suffix, NamesOf(lopNet))
           mname == UniqueName(MatPrefix \o suffix, NamesOf(lopNet) \cup {iname})
       IN lopNet' = lopNet \cup
            { [name |-> iname, type |-> "sopimport", soppath |-> o,
               primpath |-> PrimPath(o), inputs |-> {}],
              [name |-> mname, type |-> "materiallibrary", soppath |-> <<>>,
               primpath |-> <<>>, inputs |-> {iname}] }
    /\ hLopQueue' = hLopQueue \ {o}
    /\ UNCHANGED <<hFiles, sopNet, hSopQueue, hLog, hpc>>
    /\ UNCHANGED notHou

\* the sublayer node merge_all over every child named imp_*
LopMerge ==
    /\ hpc = "lop"
    /\ hLopQueue = {}
    /\ lopNet' = lopNet \cup
         { [name |-> UniqueName(MergeAll, NamesOf(lopNet)), type |-> "sublayer",
            soppath |-> <<>>, primpath |-> <<>>,
            inputs |-> {n.name : n \in {m \in lopNet :
                           StartsWith(m.name, ImpPrefix)}}] }
    /\ hpc' = "idle"
    /\ UNCHANGED <<hFiles, sopNet, hSopQueue, hLopQueue, hLog>>
    /\ UNCHANGED notHou

HouNext ==
    \/ SopStart
    \/ \E f \in HouPaths : SopCreate(f)
    \/ SopEnd
    \/ LopStart
    \/ \E o \in NamesOf(sopNet) : LopCreate(o)
    \/ LopMerge

-----------------------------------------------------------------------------
(* Properties of the Houdini scripts *)

\* the SOP script has run once and the LOP script once after it
FirstPass == hpc = "idle" /\ hLog = <<"sop", "lop">>

\* the sopimport nodes that import the geometry of file f
ImportsOf(f) ==
    { i \in lopNet :
        /\ i.type = "sopimport"
        /\ \E n, o \in sopNet :
              /\ n.type = "file" /\ n.file = f
              /\ o.type = "null" /\ o.input = n.name
              /\ i.soppath = o.name }

\* C6: for every OBJ file a/b/c.obj there are a file node obj_a_b_c, a null
\* out_a_b_c wired to it, and a sopimport node of that null whose prim path
\* is /World/a/b/c, the file's relative path segments; and distinct files
\* get distinct node names and prim paths.
C6_NamesFollowPaths ==
    FirstPass =>
        /\ \A f \in hFiles :
              /\ \E n, o \in sopNet :
                    /\ n.type = "file" /\ n.file = f
                    /\ n.name = ObjPrefix \o Join(StemParts(f), <<"_">>)
                    /\ o.type = "null" /\ o.input = n.name
                    /\ o.name = OutPrefix \o Join(StemParts(f), <<"_">>)
              /\ ImportsOf(f) # {}
              /\ \A i \in ImportsOf(f) :
                    i.primpath = WorldPrefix \o Join(StemParts(f), <<"/">>)
        /\ \A f, g \in hFiles : f # g =>
              \A i \in ImportsOf(f), j \in ImportsOf(g) :
                  i.name # j.name /\ i.primpath # j.primpath

\* the scripts that have run
SopRan == \E i \in 1..Len(hLog) : hLog[i] = "sop"
LopRanLast == hLog # <<>> /\ hLog[Len(hLog)] = "lop"

\* the nodes of a network by type
OfType(net, type) == {n \in net : n.type = type}

\* the nulls the LOP script collects
OutNulls == {n \in OfType(sopNet, "null") : StartsWith(n.name, OutPrefix)}

\* C12: generated nodes never accumulate across runs. However often the SOP
\* script has run on the unchanged obj directory, its network holds what one
\* run generates: one file node and one null per OBJ file. When the LOP
\* script has just run, however often it ran before, its network holds what
\* one run generates: one sopimport and one materiallibrary per out_ null,
\* and one merge_all.
C12_NoAccumulation ==
    hpc = "idle" =>
        /\ SopRan =>
              /\ Cardinality(OfType(sopNet, "file")) = Cardinality(hFiles)
              /\ Cardinality(OfType(sopNet, "null")) = Cardinality(hFiles)
        /\ LopRanLast =>
              /\ Cardinality(OfType(lopNet, "sopimport")) = Cardinality(OutNulls)
              /\ Cardinality(OfType(lopNet, "materiallibrary"))
                    = Cardinality(OutNulls)
              /\ Cardinality(OfType(lopNet, "sublayer")) = 1

\* the part of C12 about the nodes the cleanup loops do destroy: the obj_
\* file nodes and the imp_ sopimport nodes
C12_Part_CleanedKinds ==
    hpc = "idle" =>
        /\ SopRan => Cardinality(OfType(sopNet, "file")) = Cardinality(hFiles)
        /\ LopRanLast =>
              Cardinality(OfType(lopNet, "sopimport")) = Cardinality(OutNulls)

-----------------------------------------------------------------------------
(* zbrush/import.py *)

\* str.replace(old, new) for a two-character pattern c1 c2
RECURSIVE Replace2(_, _, _, _)
Replace2(s, c1, c2, r) ==
    IF Len(s) < 2 THEN s
    ELSE IF s[1] = c1 /\ s[2] = c2
         THEN r \o Replace2(SubSeq(s, 3, Len(s)), c1, c2, r)
         ELSE <<s[1]>> \o Replace2(Tail(s), c1, c2, r)

\* str.removeprefix(prefix)
RemovePrefix(s, prefix) ==
    IF StartsWith(s, prefix) THEN SubSeq(s, Len(prefix) + 1, Len(s)) ELSE s

\* names of the files and directories of the imported folder (Windows file
\* names: "%" is an ordinary character)
ZStems == { <<"b">>, <<"a", "%", "5", "C", "b">> }
ZDirNames == { <<"a">> }
ZSubNames == { <<"s">>, <<"t">> }
ZRootNames == { <<"a">> \o ObjSuffix, <<"b">> \o ObjSuffix }

\* the paths a .obj file can have relative to a subdirectory
ZSubPaths ==
    { dirs \o <<stem \o ObjSuffix>> :
        dirs \in SeqsOf(ZDirNames, 0, MaxSubDepth), stem \in ZStems }

ZSubFileSets == SubsetsUpTo(ZSubPaths, MaxSubFiles)

Placeholder == <<"placeholder">>
NoFolder == <<>>

\* ---- the host, as the helpers' docstrings describe it

\* zbc.locate_subtool(id): the index of the SubTool with that id, 0 when
\* there is none
Locate(list, id) ==
    LET at == {i \in 1..Len(list) : list[i].kind = "mesh" /\ list[i].id = id}
    IN IF at = {} THEN 0 ELSE CHOOSE i \in at : \A j \in at : i <= j

\* zbc.select_subtool(index)
Select(h, index) ==
    IF index \in 1..Len(h.list) THEN [h EXCEPT !.active = index] ELSE h

\* Tool:Import with the next file name set: the selected SubTool receives
\* the mesh of the file and the file's name
PressImport(h, path) ==
    [h EXCEPT !.list[h.active].mesh = path,
              !.list[h.active].name = Stem(path[Len(path)])]

\* Tool:SubTool:Duplicate: a copy with a new id, below the selected SubTool,
\* becomes the selected one
PressDuplicate(h) ==
    LET copy == [h.list[h.active] EXCEPT !.id = h.nextId] IN
    [list |-> SubSeq(h.list, 1, h.active) \o <<copy>>
                \o SubSeq(h.list, h.active + 1, Len(h.list)),
     active |-> h.active + 1,
     nextId |-> h.nextId + 1]

\* Tool:SubTool:Rename with the next name set
PressRename(h, name) == [h EXCEPT !.list[h.active].name = name]

\* Tool:SubTool:New Folder with the next name set: a folder that holds the
\* selected SubTool
PressNewFolder(h, name) ==
    LET header == [id |-> 0, name |-> name, mesh |-> <<>>, kind |-> "folder",
                   folder |-> name]
        moved == [h.list[h.active] EXCEPT !.folder = name]
    IN [list |-> SubSeq(h.list, 1, h.active - 1) \o <<header, moved>>
                   \o SubSeq(h.list, h.active + 1, Len(h.list)),
        active |-> h.active + 1,
        nextId |-> h.nextId]

\* Tool:SubTool:Move Up: the selected SubTool changes place with the entry
\* above it
PressMoveUp(h) ==
    IF h.active <= 1 THEN h
    ELSE [h EXCEPT !.list[h.active - 1] = h.list[h.active],
                   !.list[h.active] = h.list[h.active - 1],
                   !.active = h.active - 1]

Host == [list |-> subtools, active |-> zActive, nextId |-> zNextId]

\* ---- the importer

\* _import_obj(path): the id of the selected SubTool after the import
import_obj(h, path) ==
    LET h1 == PressImport(h, path) IN [host |-> h1, id |-> h1.list[h1.active].id]

\* _duplicate_subtool(subtool_id)
duplicate_subtool(h, id) == PressDuplicate(Select(h, Locate(h.list, id)))

\* import_single(path)
import_single(h, path) ==
    import_obj(duplicate_subtool(h, placeholder_subtool_id), path)

\* the SubTool name import_single_and_rename computes from the path
\* relative to current_folder
NewName(rel) ==
    LET relative_path == Join(rel, <<"\\">>)
        unprefixed == RemovePrefix(relative_path, <<".", "\\", "\\">>)
        single == Replace2(unprefixed, "\\", "\\", <<"\\">>)
    IN Replace(single, "\\", <<"%", "5", "C">>)

\* rename_subtool(subtool_id, new_name)
rename_subtool(h, id, name) == PressRename(Select(h, Locate(h.list, id)), name)

\* import_single_and_rename(path), path = current_folder / rel
import_single_and_rename(h, rel) ==
    LET r == import_single(h, <<current_folder>> \o rel) IN
    [host |-> rename_subtool(r.host, r.id, NewName(rel)), id |-> r.id]

\* _create_folder(name)
create_folder(h, name) ==
    PressNewFolder(Select(h, Locate(h.list, placeholder_subtool_id)), name)

\* move_placeholder_to_top(): n passes of locate, select, Move Up
RECURSIVE move_placeholder(_, _)
move_placeholder(h, n) ==
    IF n = 0 THEN h
    ELSE move_placeholder(
            PressMoveUp(Select(h, Locate(h.list, placeholder_subtool_id))),
            n - 1)

\* a variant that lists only the files directly in the subdirectory
SubObjsShallow(sub) == SortedPaths({f \in zSubs[sub] : Len(f) = 1})

\* sorted(sub.rglob("*.obj")), relative to sub
SubObjs(sub) == SortedPaths(zSubs[sub])

\* sorted(folder.glob("*.obj"))
RootObjs == SortedStrs(zRoot)

\* sorted(folder.iterdir(), key=lambda p: p.name)
DirEntries == SortedStrs(zRoot \cup DOMAIN zSubs)

\* the constructor has run: the placeholder OBJ was imported into the tool's
\* one SubTool and its id kept
ZbInit ==
    /\ zRoot \in SUBSET ZRootNames
    /\ zSubs \in UNION {[D -> ZSubFileSets] : D \in SUBSET ZSubNames}
    /\ subtools = <<[id |-> 1, name |-> Placeholder, mesh |-> <<Placeholder>>,
                     kind |-> "mesh", folder |-> NoFolder]>>
    /\ zActive = 1
    /\ zNextId = 2
    /\ placeholder_subtool_id = 1
    /\ obj_counts = 0
    /\ current_folder = <<>>
    /\ zRootQ = <<>>
    /\ zSubQ = <<>>
    /\ zFileQ = <<>>
    /\ zlog = <<>>
    /\ zpc = "ready"

\* the importer is not running
ZbIdle ==
    /\ zRoot = {} /\ zSubs = [d \in {} |-> {}] /\ subtools = <<>>
    /\ zActive = 0 /\ zNextId = 0 /\ placeholder_subtool_id = 0
    /\ obj_counts = 0 /\ current_folder = <<>> /\ zRootQ = <<>>
    /\ zSubQ = <<>> /\ zFileQ = <<>> /\ zlog = <<>> /\ zpc = "off"

SetHost(h) ==
    /\ subtools' = h.list
    /\ zActive' = h.active
    /\ zNextId' = h.nextId

\* import_objs starts: the root .obj files are listed and counted
ZStart ==
    /\ zpc = "ready"
    /\ obj_counts' = Len(RootObjs)
    /\ zRootQ' = RootObjs
    /\ zpc' = "root"
    /\ UNCHANGED <<zRoot, zSubs, subtools, zActive, zNextId,
                   placeholder_subtool_id, current_folder, zSubQ, zFileQ, zlog>>
    /\ UNCHANGED notZb

\* import_single(p) for the next root file
ZImportRoot ==
    /\ zpc = "root"
    /\ zRootQ # <<>>
    /\ SetHost(import_single(Host, <<Head(zRootQ)>>).host)
    /\ zlog' = Append(zlog, [ev |-> "import", path |-> <<Head(zRootQ)>>])
    /\ zRootQ' = Tail(zRootQ)
    /\ UNCHANGED <<zRoot, zSubs, placeholder_subtool_id, obj_counts,
                   current_folder, zSubQ, zFileQ, zpc>>
    /\ UNCHANGED notZb

\* the root files are done: the entries of the folder are listed
ZRootDone ==
    /\ zpc = "root"
    /\ zRootQ = <<>>
    /\ zSubQ' = DirEntries
    /\ zpc' = "subs"
    /\ UNCHANGED <<zRoot, zSubs, subtools, zActive, zNextId,
                   placeholder_subtool_id, obj_counts, current_folder, zRootQ,
                   zFileQ, zlog>>
    /\ UNCHANGED notZb

\* "if not sub.is_dir(): continue"
ZSkipEntry ==
    /\ zpc = "subs"
    /\ zSubQ # <<>>
    /\ Head(zSubQ) \notin DOMAIN zSubs
    /\ zSubQ' = Tail(zSubQ)
    /\ UNCHANGED <<zRoot, zSubs, subtools, zActive, zNextId,
                   placeholder_subtool_id, obj_counts, current_folder, zRootQ,
                   zFileQ, zlog, zpc>>
    /\ UNCHANGED notZb

\* a subdirectory: its SubTool folder is created, its files listed and
\* counted
ZCreateFolder ==
    /\ zpc = "subs"
    /\ zSubQ # <<>>
    /\ Head(zSubQ) \in DOMAIN zSubs
    /\ current_folder' = Head(zSubQ)
    /\ SetHost(create_folder(Host, Head(zSubQ)))
    /\ zlog' = Append(zlog, [ev |-> "folder", path |-> <<Head(zSubQ)>>])
    /\ zFileQ' = SubObjs(Head(zSubQ))
    /\ obj_counts' = obj_counts + Len(SubObjs(Head(zSubQ)))
    /\ zSubQ' = Tail(zSubQ)
    /\ zpc' = "files"
    /\ UNCHANGED <<zRoot, zSubs, placeholder_subtool_id, zRootQ>>
    /\ UNCHANGED notZb

\* import_single_and_rename(p) for the next file of the subdirectory
ZImportSub ==
    /\ zpc = "files"
    /\ zFileQ # <<>>
    /\ SetHost(import_single_and_rename(Host, Head(zFileQ)).host)
    /\ zlog' = Append(zlog, [ev |-> "import",
                             path |-> <<current_folder>> \o Head(zFileQ)])
    /\ zFileQ' = Tail(zFileQ)
    /\ UNCHANGED <<zRoot, zSubs, placeholder_subtool_id, obj_counts,
                   current_folder, zRootQ, zSubQ, zpc>>
    /\ UNCHANGED notZb

\* the files of the subdirectory are done
ZSubDone ==
    /\ zpc = "files"
    /\ zFileQ = <<>>
    /\ zpc' = "subs"
    /\ UNCHANGED <<zRoot, zSubs, subtools, zActive, zNextId,
                   placeholder_subtool_id, obj_counts, current_folder, zRootQ,
                   zSubQ, zFileQ, zlog>>
    /\ UNCHANGED notZb

\* every entry is visited: move_placeholder_to_top, and import_objs returns
ZMovePlaceholder ==
    /\ zpc = "subs"
    /\ zSubQ = <<>>
    /\ SetHost(move_placeholder(Host, obj_counts))
    /\ zpc' = "done"
    /\ UNCHANGED <<zRoot, zSubs, placeholder_subtool_id, obj_counts,
                   current_folder, zRootQ, zSubQ, zFileQ, zlog>>
    /\ UNCHANGED notZb

ZbNext ==
    \/ ZStart
    \/ ZImportRoot
    \/ ZRootDone
    \/ ZSkipEntry
    \/ ZCreateFolder
    \/ ZImportSub
    \/ ZSubDone
    \/ ZMovePlaceholder

-----------------------------------------------------------------------------
(* Properties of the ZBrush importer *)

ImportEvents == SelectSeq(zlog, LAMBDA e : e.ev = "import")
FolderEvents == SelectSeq(zlog, LAMBDA e : e.ev = "folder")

\* every .obj file of the directory tree, as a path relative to the folder
AllObjFiles ==
    {<<r>> : r \in zRoot}
        \cup UNION { {<<d>> \o f : f \in zSubs[d]} : d \in DOMAIN zSubs }

\* the positions of the folder creations before position i of the log
FoldersBefore(i) == {j \in 1..(i - 1) : zlog[j].ev = "folder"}

\* C7: import_objs imports every .obj file of the tree exactly once and
\* obj_counts is the number of imports; it creates exactly one SubTool folder
\* per top-level subdirectory; the files below a subdirectory are imported
\* after its folder is created and before the next folder is, and the root
\* files before any folder is created.
C7_ImportsFollowFolders ==
    /\ zpc = "done" =>
          /\ {ImportEvents[i].path : i \in 1..Len(ImportEvents)} = AllObjFiles
          /\ Len(ImportEvents) = Cardinality(AllObjFiles)
          /\ obj_counts = Len(ImportEvents)
          /\ {FolderEvents[i].path[1] : i \in 1..Len(FolderEvents)} = DOMAIN zSubs
          /\ Len(FolderEvents) = Cardinality(DOMAIN zSubs)
    /\ \A i \in 1..Len(zlog) :
          zlog[i].ev = "import" =>
             IF Len(zlog[i].path) = 1
             THEN FoldersBefore(i) = {}
             ELSE /\ FoldersBefore(i) # {}
                  /\ LET j == CHOOSE j \in FoldersBefore(i) :
                                  \A k \in FoldersBefore(i) : k <= j
                     IN zlog[j].path[1] = zlog[i].path[1]

\* C7 witness: a finished import of a root file and of two subdirectories,
\* one of them holding a file in a nested directory.
C7_Witness ==
    /\ zpc = "done"
    /\ Len(FolderEvents) = 2
    /\ \E i, j, k \in 1..Len(ImportEvents) :
          /\ Len(ImportEvents[i].path) = 1
          /\ Len(ImportEvents[j].path) = 3
          /\ Len(ImportEvents[k].path) = 2
          /\ ImportEvents[k].path[1] # ImportEvents[j].path[1]

\* the SubTools holding the mesh of a file below a subdirectory
FromSubfolder(i) ==
    /\ subtools[i].kind = "mesh"
    /\ Len(subtools[i].mesh) >= 2

\* the name that encodes a path relative to its subdirectory: its parts
\* joined by %5C
EncodedName(rel) == Join(rel, <<"%", "5", "C">>)

\* C8: the SubTool that received the mesh of a file below the current
\* subdirectory carries the name encoding the file's path relative to that
\* subdirectory (separators replaced by %5C); no other SubTool is renamed,
\* the placeholder least of all; and two different files of one
\* subdirectory never get the same name.
C8_NamesEncodePaths ==
    /\ \A i \in 1..Len(subtools) :
          FromSubfolder(i) =>
              subtools[i].name = EncodedName(Tail(subtools[i].mesh))
    /\ \A i \in 1..Len(subtools) :
          (subtools[i].kind = "mesh" /\ subtools[i].mesh = <<Placeholder>>) =>
              subtools[i].name = Placeholder
    /\ \A i \in 1..Len(subtools) :
          (subtools[i].kind = "mesh" /\ subtools[i].id = placeholder_subtool_id) =>
              subtools[i].mesh = <<Placeholder>>
    /\ \A i, j \in 1..Len(subtools) :
          (/\ FromSubfolder(i) /\ FromSubfolder(j)
           /\ subtools[i].mesh # subtools[j].mesh
           /\ subtools[i].mesh[1] = subtools[j].mesh[1]) =>
              subtools[i].name # subtools[j].name

\* the first three parts of C8 alone
C8_Part_Names ==
    /\ \A i \in 1..Len(subtools) :
          FromSubfolder(i) =>
              subtools[i].name = EncodedName(Tail(subtools[i].mesh))
    /\ \A i \in 1..Len(subtools) :
          (subtools[i].kind = "mesh" /\ subtools[i].mesh = <<Placeholder>>) =>
              subtools[i].name = Placeholder
    /\ \A i \in 1..Len(subtools) :
          (subtools[i].kind = "mesh" /\ subtools[i].id = placeholder_subtool_id) =>
              subtools[i].mesh = <<Placeholder>>

\* the position of the placeholder SubTool in the SubTool list
PlaceholderIndex == Locate(subtools, placeholder_subtool_id)

\* C11: when import_objs has returned, the placeholder SubTool is the first
\* entry of the SubTool list, above every SubTool and every SubTool folder
\* the import added: the obj_counts presses of Move Up were enough.
C11_PlaceholderOnTop ==
    zpc = "done" => PlaceholderIndex = 1

\* the presses of Move Up suffice when there are at least as many .obj files
\* as top-level subdirectories
C11_Part_EnoughFiles ==
    (zpc = "done" /\ obj_counts >= Cardinality(DOMAIN zSubs)) =>
        PlaceholderIndex = 1

-----------------------------------------------------------------------------
(* maya/import_images.py *)
(* Lengths and positions are in tenths of a scene unit, so that 1.2 *       *)
(* spacing and height / 2 are whole numbers.                                *)

\* the views dict, in insertion order: translation axis and rotation
Views ==
    << [name |-> "front",  t |-> <<0, 0, 1>>,  r |-> <<0, 0, 0>>],
       [name |-> "back",   t |-> <<0, 0, -1>>, r |-> <<0, 180, 0>>],
       [name |-> "left",   t |-> <<-1, 0, 0>>, r |-> <<0, -90, 0>>],
       [name |-> "right",  t |-> <<1, 0, 0>>,  r |-> <<0, 90, 0>>],
       [name |-> "top",    t |-> <<0, 1, 0>>,  r |-> <<90, 0, 0>>],
       [name |-> "bottom", t |-> <<0, -1, 0>>, r |-> <<-90, 0, 0>>] >>

\* fileDialog2 returns None
Cancelled == <<"<cancelled>">>

\* the <<width, height>> an image plane can have, in scene units
PlaneSizes == { <<1, 1>>, <<3, 2>>, <<1, 4>> }

CamerasGroup == "Cameras_Group"
PlanesGroup == "Image_Planes_Group"
PlanesLayer == "Image_Planes_Layer"

Max2(a, b) == IF a >= b THEN a ELSE b

\* spacing after the creation loop: max over the planes' widths and heights,
\* starting from 0 (scene units)
RECURSIVE Spacing(_)
Spacing(sizes) ==
    IF sizes = <<>> THEN 0
    ELSE Max2(Max2(Spacing(SubSeq(sizes, 1, Len(sizes) - 1)),
                   sizes[Len(sizes)][1]),
              sizes[Len(sizes)][2])

\* ground_offset after the creation loop: max over height / 2 (tenths)
RECURSIVE GroundOffset(_)
GroundOffset(sizes) ==
    IF sizes = <<>> THEN 0
    ELSE Max2(GroundOffset(SubSeq(sizes, 1, Len(sizes) - 1)),
              5 * sizes[Len(sizes)][2])

\* a variant whose extra planes start at the front plane's distance
PlaneTranslationFromFront(i, spacing, ground_offset) ==
    IF i < 6
    THEN LET v == Views[i + 1].t IN
         <<v[1] * spacing * 12, v[2] * spacing * 12 + ground_offset,
           v[3] * spacing * 12>>
    ELSE <<0, ground_offset, spacing * 12 + (i - 6) * 50>>

\* position_image_planes: the translate of the plane with (0-based) index i
PlaneTranslation(i, spacing, ground_offset) ==
    IF i < 6
    THEN LET v == Views[i + 1].t IN
         <<v[1] * spacing * 12, v[2] * spacing * 12 + ground_offset,
           v[3] * spacing * 12>>
    ELSE <<0, ground_offset, spacing * 12 + (i - 5) * 50>>

\* create_image_planes_for_views(image_files): the planes it leaves
ImagePlanes(sizes) ==
    [k \in 1..Len(sizes) |->
        [index |-> k - 1,
         width |-> sizes[k][1],
         height |-> sizes[k][2],
         rotate |-> IF k - 1 < 6 THEN Views[k].r ELSE <<0, 0, 0>>,
         translate |-> PlaneTranslation(k - 1, Spacing(sizes), GroundOffset(sizes)),
         pivot |-> <<0, GroundOffset(sizes), 0>>,
         parent |-> PlanesGroup,
         layer |-> PlanesLayer]]

\* a variant that leaves the render camera outside the group
CamerasRenderLoose ==
    [k \in 1..7 |->
        IF k <= 6
        THEN [name |-> <<"_", Views[k].name, "_cam">>, orthographic |-> TRUE,
              translate |-> [c \in 1..3 |-> Views[k].t[c] * 100],
              rotate |-> Views[k].r, visibility |-> 0, parent |-> CamerasGroup]
        ELSE [name |-> <<"__render_cam">>, orthographic |-> FALSE,
              translate |-> <<10, 10, 10>>, rotate |-> <<0, 0, 0>>,
              visibility |-> 0, parent |-> "world"]]

\* create_cameras(): the six view cameras and the render camera (positions
\* in scene units)
Cameras ==
    [k \in 1..7 |->
        IF k <= 6
        THEN [name |-> <<"_", Views[k].name, "_cam">>, orthographic |-> TRUE,
              translate |-> [c \in 1..3 |-> Views[k].t[c] * 100],
              rotate |-> Views[k].r, visibility |-> 0, parent |-> CamerasGroup]
        ELSE [name |-> <<"__render_cam">>, orthographic |-> FALSE,
              translate |-> <<10, 10, 10>>, rotate |-> <<0, 0, 0>>,
              visibility |-> 0, parent |-> CamerasGroup]]

ImgInit ==
    /\ imgDialog \in {Cancelled} \cup SeqsOf(PlaneSizes, 0, MaxImages)
    /\ imgPlanes = <<>>
    /\ imgCameras = <<>>
    /\ imgGroups = {}
    /\ imgLayers = {}
    /\ imgCubes = <<>>
    /\ imgOut = <<>>
    /\ imgpc = "dialog"

\* import_images is not running
ImgIdle ==
    /\ imgDialog = Cancelled /\ imgPlanes = <<>> /\ imgCameras = <<>>
    /\ imgGroups = {} /\ imgLayers = {} /\ imgCubes = <<>> /\ imgOut = <<>>
    /\ imgpc = "off"

\* select_images() returns the selection
SelectImages ==
    /\ imgpc = "dialog"
    /\ imgDialog # Cancelled /\ imgDialog # <<>>
    /\ imgpc' = "planes"
    /\ UNCHANGED <<imgDialog, imgPlanes, imgCameras, imgGroups, imgLayers,
                   imgCubes, imgOut>>
    /\ UNCHANGED notImg

\* select_images() raises RuntimeError ("not image_files"), which the module
\* body catches and prints
SelectNothing ==
    /\ imgpc = "dialog"
    /\ imgDialog = Cancelled \/ imgDialog = <<>>
    /\ imgOut' = Append(imgOut, "error")
    /\ imgpc' = "done"
    /\ UNCHANGED <<imgDialog, imgPlanes, imgCameras, imgGroups, imgLayers,
                   imgCubes>>
    /\ UNCHANGED notImg

\* create_image_planes_for_views(image_files)
CreateImagePlanes ==
    /\ imgpc = "planes"
    /\ imgGroups' = imgGroups \cup {PlanesGroup}
    /\ imgLayers' = imgLayers \cup {PlanesLayer}
    /\ imgPlanes' = ImagePlanes(imgDialog)
    /\ imgCubes' = Append(imgCubes, <<0, GroundOffset(imgDialog), 0>>)
    /\ imgpc' = "cameras"
    /\ UNCHANGED <<imgDialog, imgCameras, imgOut>>
    /\ UNCHANGED notImg

\* create_cameras()
CreateCameras ==
    /\ imgpc = "cameras"
    /\ imgGroups' = imgGroups \cup {CamerasGroup}
    /\ imgCameras' = Cameras
    /\ imgpc' = "print"
    /\ UNCHANGED <<imgDialog, imgPlanes, imgLayers, imgCubes, imgOut>>
    /\ UNCHANGED notImg

\* the closing print
PrintCreated ==
    /\ imgpc = "print"
    /\ imgOut' = Append(imgOut, "created")
    /\ imgpc' = "done"
    /\ UNCHANGED <<imgDialog, imgPlanes, imgCameras, imgGroups, imgLayers,
                   imgCubes>>
    /\ UNCHANGED notImg

ImgNext ==
    \/ SelectImages
    \/ SelectNothing
    \/ CreateImagePlanes
    \/ CreateCameras
    \/ PrintCreated

-----------------------------------------------------------------------------
(* Properties of import_images *)

\* the largest width or height of any plane (scene units)
LargestSide ==
    CHOOSE m \in {imgPlanes[k].width : k \in 1..Len(imgPlanes)}
                   \cup {imgPlanes[k].height : k \in 1..Len(imgPlanes)} :
        \A k \in 1..Len(imgPlanes) :
            imgPlanes[k].width <= m /\ imgPlanes[k].height <= m

\* the six view axes: front +z, back -z, left -x, right +x, top +y, bottom -y
ViewAxes ==
    << <<0, 0, 1>>, <<0, 0, -1>>, <<-1, 0, 0>>, <<1, 0, 0>>, <<0, 1, 0>>,
       <<0, -1, 0>> >>

\* the position of plane k relative to the planes' common pivot
FromPivot(k) ==
    [c \in 1..3 |-> imgPlanes[k].translate[c] - imgPlanes[k].pivot[c]]

C10_RigComplete ==
    imgpc = "done" =>
        IF imgDialog # Cancelled /\ imgDialog # <<>>
        THEN /\ Len(imgCameras) = 7
             /\ {imgCameras[k].name[2] :
                    k \in {j \in 1..7 : imgCameras[j].orthographic}}
                  = {"front", "back", "left", "right", "top", "bottom"}
             /\ Cardinality({k \in 1..7 : imgCameras[k].orthographic}) = 6
             /\ \E k \in 1..7 :
                   /\ imgCameras[k].name = <<"__render_cam">>
                   /\ ~imgCameras[k].orthographic
             /\ \A k \in 1..7 : imgCameras[k].parent = CamerasGroup
             /\ CamerasGroup \in imgGroups
             /\ Len(imgPlanes) = Len(imgDialog)
             /\ \A k \in 1..Len(imgPlanes) :
                   /\ imgPlanes[k].parent = PlanesGroup
                   /\ imgPlanes[k].layer = PlanesLayer
                   /\ <<imgPlanes[k].width, imgPlanes[k].height>> = imgDialog[k]
             /\ PlanesGroup \in imgGroups
             /\ PlanesLayer \in imgLayers
        ELSE /\ imgCameras = <<>> /\ imgPlanes = <<>> /\ imgGroups = {}
             /\ imgLayers = {} /\ imgCubes = <<>>

\* C10 witness: a finished run over seven images.
C10_Witness ==
    /\ imgpc = "done"
    /\ imgDialog # Cancelled
    /\ Len(imgDialog) = 7
    /\ Len(imgCameras) = 7
    /\ Len(imgPlanes) = 7

-----------------------------------------------------------------------------
(* Specifications, one per script *)

InitExport == ExpInit /\ GrpIdle /\ ImpIdle /\ HouIdle /\ ZbIdle /\ ImgIdle

SpecExport == InitExport /\ [][ExpNext]_vars

InitGroups == GrpInit /\ ExpIdle /\ ImpIdle /\ HouIdle /\ ZbIdle /\ ImgIdle

SpecGroups == InitGroups /\ [][GrpNext]_vars

InitImport == ImpInit /\ ExpIdle /\ GrpIdle /\ HouIdle /\ ZbIdle /\ ImgIdle

SpecImport == InitImport /\ [][ImpNext]_vars

InitHoudini == HouInit /\ ExpIdle /\ GrpIdle /\ ImpIdle /\ ZbIdle /\ ImgIdle

SpecHoudini == InitHoudini /\ [][HouNext]_vars

InitZBrush == ZbInit /\ ExpIdle /\ GrpIdle /\ ImpIdle /\ HouIdle /\ ImgIdle

SpecZBrush == InitZBrush /\ [][ZbNext]_vars

InitImages == ImgInit /\ ExpIdle /\ GrpIdle /\ ImpIdle /\ HouIdle /\ ZbIdle

SpecImages == InitImages /\ [][ImgNext]_vars

====
